---- MODULE Spec2Model ----
(***************************************************************************)
(* A model of src/veloxdb.go (package velox): Table, Database, and their   *)
(* operations CreateRecord / ReadRecord / UpdateRecord / DeleteRecord,     *)
(* CreateTable / GetTable / Load / Save.                                   *)
(*                                                                         *)
(* The two maps of the program are github.com/orcaman/concurrent-map      *)
(* (imported at veloxdb.go:12, the non-generic version):                  *)
(*     type ConcurrentMap []*ConcurrentMapShared                          *)
(*     func New() ConcurrentMap        -- makes SHARD_COUNT shards        *)
(*     func (m ConcurrentMap) GetShard(key) { return m[fnv32(key)%N] }    *)
(* so a map built by cmap.New() (Database.tables, line 117) works, and    *)
(* the composite literal &cmap.ConcurrentMap{} (Table.records, line 132)  *)
(* is a slice of no shards: Set, Get and Remove on it index an empty      *)
(* slice and panic, while IterCb on it visits nothing.                    *)
(*                                                                         *)
(* A panic unwinds the call (running the deferred Unlock) and is handed   *)
(* to the caller; the model records it as the call's result "panic" and   *)
(* lets the caller go on (a caller that recovers).                        *)
(***************************************************************************)
EXTENDS Integers, Sequences, FiniteSets, TLC

(* ---------------------------- bounds ---------------------------------- *)
MaxID == 3            \* CreateRecord is not started once nextID reaches it
MaxMaps == 3          \* NewTable calls (record maps allocated) per Database

Threads == {1, 2}                     \* goroutines calling into the package
Names == {"users", "orders"}          \* table names
Dirs == {"/", "data/"}                \* directories (Load's argument)
IDs == 1..(MaxID - 1)                 \* ids passed to Read / Update / Delete

(* ---------------------------- payloads -------------------------------- *)
\* interface{} values: a Go type and a printed value.
NoData == [t |-> "nil", v |-> ""]
Payloads == {[t |-> "string", v |-> "a"], [t |-> "int", v |-> "7"]}

\* Record (lines 15-18)
Record(id, data) == [ID |-> id, Data |-> data]

\* jsoniter.Marshal of a payload: the JSON value it writes.
MarshalData(d) ==
    CASE d.t = "string" -> [j |-> "string", v |-> d.v]
      [] d.t \in {"int", "float64"} -> [j |-> "number", v |-> d.v]
      [] OTHER -> [j |-> "null", v |-> ""]

\* jsoniter Decode of a JSON value into interface{}: numbers come back float64.
DecodeData(j) ==
    CASE j.j = "string" -> [t |-> "string", v |-> j.v]
      [] j.j = "number" -> [t |-> "float64", v |-> j.v]
      [] OTHER -> NoData

\* A Record as written to / read from a table file: {"id": .., "data": ..}
MarshalRecord(r) == [id |-> r.ID, data |-> MarshalData(r.Data)]
DecodeRecord(j) == Record(j.id, DecodeData(j.data))

\* strconv.Itoa: the decimal digits of n, most significant first.
RECURSIVE Digits(_)
Digits(n) == IF n < 10 THEN <<n>> ELSE Digits(n \div 10) \o <<n % 10>>
Itoa(n) == IF n < 0 THEN <<-1>> \o Digits(0 - n) ELSE Digits(n)   \* -1: the sign

(* ------------------------ concurrent-map ------------------------------ *)
\* A ConcurrentMap value: made = it has its shards; items = key -> value.
CMapNew == [made |-> TRUE, items |-> <<>>]          \* cmap.New()
CMapLiteral == [made |-> FALSE, items |-> <<>>]     \* cmap.ConcurrentMap{}

\* GetShard indexes the slice of shards: it panics on a map with no shards.
CMapPanics(m) == ~m.made
CMapHas(m, k) == k \in DOMAIN m.items
CMapGet(m, k) == m.items[k]
CMapSet(m, k, val) ==
    [m EXCEPT !.items = [x \in (DOMAIN m.items) \cup {k} |->
                            IF x = k THEN val ELSE m.items[x]]]
CMapRemove(m, k) ==
    [m EXCEPT !.items = [x \in (DOMAIN m.items) \ {k} |-> m.items[x]]]
\* IterCb ranges over the shards: none on an unmade map.
CMapKeys(m) == IF m.made THEN DOMAIN m.items ELSE {}

(* ------------------------------ state --------------------------------- *)
VARIABLES
    tables,     \* Database.tables: ConcurrentMap name -> Table value or *Table
    folder,     \* Database.folder
    lastSave,   \* Database.lastSave
    rlocked,    \* names whose registry shard is left read-locked (see Save)
    heap,       \* the Tables reached through pointers: <<[nextID, records, lock], ...>>
    cmaps,      \* the record maps, which Table.records points into
    disk,       \* disk[dir] = [master, files]
    pc,         \* pc[t]: where goroutine t is
    call,       \* call[t]: the call goroutine t is in
    h,          \* h[t]: the Table goroutine t works on
    last,       \* observation: the call that returned last, with its result
    tlog,       \* observation: per Table of heap, what CreateRecord / Load did
    wins,       \* observation: wins[name] = CreateTable(name) calls that returned nil
    saved       \* observation: the Database as it was at the last Save

vars == <<tables, folder, lastSave, rlocked, heap, cmaps, disk, pc, call, h,
          last, tlog, wins, saved>>

NoCall == [op |-> "none", name |-> "", id |-> 0, data |-> NoData, res |-> ""]
Call(op, name, id, data, res) ==
    [op |-> op, name |-> name, id |-> id, data |-> data, res |-> res]

\* Table struct (lines 33-37): records is a pointer (an index into cmaps),
\* nextID an int, and the embedded RWMutex (0: free, else the holder).
TableStruct(nextID, records, lock) ==
    [nextID |-> nextID, records |-> records, lock |-> lock]
ZeroTable == TableStruct(0, 0, 0)

\* NewTable (lines 130-135): the struct, and the map its records field points
\* to, which is allocated at index i of cmaps.
NewTable(i) == [tbl |-> TableStruct(1, i, 0), map |-> CMapLiteral]

\* NewDatabase (lines 115-119)
NewDatabase == [tables |-> CMapNew, folder |-> "", lastSave |-> ""]

\* What is observed of one Table: calls = CreateRecord calls that have ended,
\* ret = the ids they returned, issued = the ids taken from nextID (line 50)
\* or put in by Load (line 172).
NoLog == [calls |-> 0, ret |-> <<>>, issued |-> {}]

\* The Table a goroutine works on: none, a Table behind a pointer (ref, in
\* heap), or a Table struct in a variable of the caller (tbl, with its log).
\* name: the table name it was got for with GetTable ("" for none).
NoHandle == [kind |-> "none", ref |-> 0, tbl |-> ZeroTable, log |-> NoLog, name |-> ""]
PtrHandle(ref, name) ==
    [kind |-> "ptr", ref |-> ref, tbl |-> ZeroTable, log |-> NoLog, name |-> name]
CopyHandle(tbl, name) ==
    [kind |-> "copy", ref |-> 0, tbl |-> tbl, log |-> NoLog, name |-> name]

TableOf(t) == IF h[t].kind = "ptr" THEN heap[h[t].ref] ELSE h[t].tbl
LogOf(t) == IF h[t].kind = "ptr" THEN tlog[h[t].ref] ELSE h[t].log
PutTable(t, tbl, log) ==
    IF h[t].kind = "ptr"
    THEN /\ heap' = [heap EXCEPT ![h[t].ref] = tbl]
         /\ tlog' = [tlog EXCEPT ![h[t].ref] = log]
         /\ h' = h
    ELSE /\ h' = [h EXCEPT ![t].tbl = tbl, ![t].log = log]
         /\ UNCHANGED <<heap, tlog>>

(* ------------------------------ disk ---------------------------------- *)
\* A file: st = "missing" | "ok" (decodes) | "bad" (decode fails); for a table
\* file, recs are the JSON records of the array (for "bad": those decoded
\* before the error, which the decoder has already appended to the slice).
NoFile == [st |-> "missing", recs |-> <<>>]
JRec(id, data) == [id |-> id, data |-> MarshalData(data)]
FileArrays ==
    { <<>>,
      <<JRec(2, [t |-> "string", v |-> "a"]), JRec(1, [t |-> "int", v |-> "7"])>> }
FileInits == {NoFile} \cup {[st |-> s, recs |-> a] : s \in {"ok", "bad"}, a \in FileArrays}
\* master.json: st as above, keys = the keys of the JSON object.
NoMaster == [st |-> "missing", keys |-> {}]
MasterInits ==
    {[st |-> "bad", keys |-> {}]} \cup {[st |-> "ok", keys |-> k] : k \in SUBSET Names}
NoDir == [master |-> NoMaster, files |-> [n \in Names |-> NoFile]]

\* The state after NewDatabase(), with the directory "data/" as given.
InitWith(m, f) ==
    /\ tables = NewDatabase.tables
    /\ folder = NewDatabase.folder
    /\ lastSave = NewDatabase.lastSave
    /\ rlocked = {}
    /\ heap = <<>>
    /\ cmaps = <<>>
    /\ disk = [d \in Dirs |-> IF d = "data/" THEN [master |-> m, files |-> f] ELSE NoDir]
    /\ pc = [t \in Threads |-> "idle"]
    /\ call = [t \in Threads |-> NoCall]
    /\ h = [t \in Threads |-> NoHandle]
    /\ last = NoCall
    /\ tlog = <<>>
    /\ wins = [n \in Names |-> 0]
    /\ saved = [st |-> "none", dir |-> "", tabs |-> <<>>]

Init == \E m \in MasterInits, f \in [Names -> FileInits] : InitWith(m, f)

(* --------------------------- Table calls ------------------------------ *)
\* What is observed of a call that has returned: its result, and the id or
\* the payload it returned (CreateRecord, ReadRecord).
Outcome(c) ==
    [c EXCEPT !.name = "",
              !.id = IF c.op = "CreateRecord" /\ c.res = "ok" THEN c.id ELSE 0,
              !.data = IF c.op = "ReadRecord" /\ c.res = "ok" THEN c.data ELSE NoData]

\* The call of goroutine t returns: c is the call with its result.
Return(t, c) ==
    /\ pc' = [pc EXCEPT ![t] = "idle"]
    /\ call' = [call EXCEPT ![t] = NoCall]
    /\ last' = Outcome(c)

\* The call of goroutine t waits for a lock that is never released.
Hang(t, c) ==
    /\ pc' = [pc EXCEPT ![t] = "hung"]
    /\ call' = [call EXCEPT ![t] = [c EXCEPT !.res = "hang"]]
    /\ last' = last

\* Mutant of Lock: one mutex for all the Tables behind pointers, in place of
\* the mutex embedded in each Table (line 36).
Lock_OneMutex(t, op, id, data) ==
    /\ pc[t] = "idle"
    /\ h[t].kind # "none"
    /\ TableOf(t).lock = 0
    /\ \A o \in DOMAIN heap : heap[o].lock = 0
    /\ PutTable(t, [TableOf(t) EXCEPT !.lock = t], LogOf(t))
    /\ pc' = [pc EXCEPT ![t] = op]
    /\ call' = [call EXCEPT ![t] = Call(op, "", id, data, "run")]
    /\ UNCHANGED <<tables, folder, lastSave, rlocked, cmaps, disk, last, wins, saved>>

\* Lines 47, 77, 97: RWMutex.Lock() waits until the mutex is free.
Lock(t, op, id, data) ==
    /\ pc[t] = "idle"
    /\ h[t].kind # "none"
    /\ TableOf(t).lock = 0
    /\ PutTable(t, [TableOf(t) EXCEPT !.lock = t], LogOf(t))
    /\ pc' = [pc EXCEPT ![t] = op]
    /\ call' = [call EXCEPT ![t] = Call(op, "", id, data, "run")]
    /\ UNCHANGED <<tables, folder, lastSave, rlocked, cmaps, disk, last, wins, saved>>

\* Mutant of CreateRecordTable: line 51 (table.nextID++) is left out.
CreateRecordTable_NoIncrement(tbl) == [tbl EXCEPT !.lock = 0]

\* The Table after CreateRecord's lines 50-51 and the deferred Unlock (48).
CreateRecordTable(tbl) == [tbl EXCEPT !.nextID = tbl.nextID + 1, !.lock = 0]

\* CreateRecord (lines 46-60): the body under the lock.
CreateRecordBody(t) ==
    LET tbl == TableOf(t)
        m == cmaps[tbl.records]
        data == Record(tbl.nextID, call[t].data)
        log == [LogOf(t) EXCEPT !.calls = @ + 1, !.issued = @ \cup {tbl.nextID}]
    IN  /\ pc[t] = "CreateRecord"
        /\ IF CMapPanics(m)
           THEN /\ cmaps' = cmaps
                /\ PutTable(t, CreateRecordTable(tbl), log)
                /\ Return(t, [call[t] EXCEPT !.res = "panic"])
           ELSE /\ cmaps' = [cmaps EXCEPT ![tbl.records] = CMapSet(m, Itoa(data.ID), data)]
                /\ PutTable(t, CreateRecordTable(tbl), [log EXCEPT !.ret = Append(@, data.ID)])
                /\ Return(t, [call[t] EXCEPT !.res = "ok", !.id = data.ID])
        /\ UNCHANGED <<tables, folder, lastSave, rlocked, disk, wins, saved>>

CreateRecordLock(t, data) ==
    /\ h[t].kind # "none"
    /\ TableOf(t).nextID < MaxID
    /\ Lock(t, "CreateRecord", 0, data)

\* ReadRecord (lines 62-74): no lock is taken.
ReadRecord(t, id) ==
    LET m == cmaps[TableOf(t).records]
        c == Call("ReadRecord", "", id, NoData, "run")
    IN  /\ pc[t] = "idle"
        /\ h[t].kind # "none"
        /\ IF CMapPanics(m) THEN Return(t, [c EXCEPT !.res = "panic"])
           ELSE IF ~CMapHas(m, Itoa(id)) THEN Return(t, [c EXCEPT !.res = "notfound"])
           ELSE Return(t, [c EXCEPT !.res = "ok", !.data = CMapGet(m, Itoa(id)).Data])
        /\ UNCHANGED <<tables, folder, lastSave, rlocked, heap, cmaps, disk, h,
                       tlog, wins, saved>>

\* UpdateRecord (lines 76-94)
UpdateRecordLock(t, id, data) == Lock(t, "UpdateRecord", id, data)

UpdateRecordBody(t) ==
    LET tbl == TableOf(t)
        m == cmaps[tbl.records]
        key == Itoa(call[t].id)
    IN  /\ pc[t] = "UpdateRecord"
        /\ PutTable(t, [tbl EXCEPT !.lock = 0], LogOf(t))
        /\ IF CMapPanics(m)
           THEN /\ cmaps' = cmaps
                /\ Return(t, [call[t] EXCEPT !.res = "panic"])
           ELSE IF ~CMapHas(m, key)
           THEN /\ cmaps' = cmaps
                /\ Return(t, [call[t] EXCEPT !.res = "notfound"])
           ELSE /\ cmaps' = [cmaps EXCEPT ![tbl.records] =
                                CMapSet(m, key, [CMapGet(m, key) EXCEPT !.Data = call[t].data])]
                /\ Return(t, [call[t] EXCEPT !.res = "ok"])
        /\ UNCHANGED <<tables, folder, lastSave, rlocked, disk, wins, saved>>

\* Mutant of DeleteRecordBody: the Unlock of line 98 is not deferred but
\* called before `return nil` alone.
DeleteRecordBody_UnlockAtEnd(t) ==
    LET tbl == TableOf(t)
        m == cmaps[tbl.records]
        key == Itoa(call[t].id)
    IN  /\ pc[t] = "DeleteRecord"
        /\ IF CMapPanics(m)
           THEN /\ cmaps' = cmaps
                /\ PutTable(t, tbl, LogOf(t))
                /\ Return(t, [call[t] EXCEPT !.res = "panic"])
           ELSE IF ~CMapHas(m, key)
           THEN /\ cmaps' = cmaps
                /\ PutTable(t, tbl, LogOf(t))
                /\ Return(t, [call[t] EXCEPT !.res = "notfound"])
           ELSE /\ cmaps' = [cmaps EXCEPT ![tbl.records] = CMapRemove(m, key)]
                /\ PutTable(t, [tbl EXCEPT !.lock = 0], LogOf(t))
                /\ Return(t, [call[t] EXCEPT !.res = "ok"])
        /\ UNCHANGED <<tables, folder, lastSave, rlocked, disk, wins, saved>>

\* DeleteRecord (lines 96-107)
DeleteRecordLock(t, id) == Lock(t, "DeleteRecord", id, NoData)

DeleteRecordBody(t) ==
    LET tbl == TableOf(t)
        m == cmaps[tbl.records]
        key == Itoa(call[t].id)
    IN  /\ pc[t] = "DeleteRecord"
        /\ PutTable(t, [tbl EXCEPT !.lock = 0], LogOf(t))
        /\ IF CMapPanics(m)
           THEN /\ cmaps' = cmaps
                /\ Return(t, [call[t] EXCEPT !.res = "panic"])
           ELSE IF ~CMapHas(m, key)
           THEN /\ cmaps' = cmaps
                /\ Return(t, [call[t] EXCEPT !.res = "notfound"])
           ELSE /\ cmaps' = [cmaps EXCEPT ![tbl.records] = CMapRemove(m, key)]
                /\ Return(t, [call[t] EXCEPT !.res = "ok"])
        /\ UNCHANGED <<tables, folder, lastSave, rlocked, disk, wins, saved>>

\* The two steps of RWMutex.Lock() (lines 47, 77, 97), for the behaviours in
\* which waiting for the mutex is observed. LockCall: goroutine t enters the
\* call and reaches Lock(). LockAcquire: the mutex is free and t gets it.
LockCall(t, op, id, data) ==
    /\ pc[t] = "idle"
    /\ h[t].kind # "none"
    /\ pc' = [pc EXCEPT ![t] = "Lock"]
    /\ call' = [call EXCEPT ![t] = Call(op, "", id, data, "run")]
    /\ UNCHANGED <<tables, folder, lastSave, rlocked, heap, cmaps, disk, h, last,
                   tlog, wins, saved>>

LockAcquire(t) ==
    /\ pc[t] = "Lock"
    /\ TableOf(t).lock = 0
    /\ PutTable(t, [TableOf(t) EXCEPT !.lock = t], LogOf(t))
    /\ pc' = [pc EXCEPT ![t] = call[t].op]
    /\ UNCHANGED <<tables, folder, lastSave, rlocked, cmaps, disk, call, last,
                   wins, saved>>

CreateRecordCall(t, data) ==
    /\ h[t].kind # "none"
    /\ TableOf(t).nextID < MaxID
    /\ LockCall(t, "CreateRecord", 0, data)

UpdateRecordCall(t, id, data) == LockCall(t, "UpdateRecord", id, data)

DeleteRecordCall(t, id) == LockCall(t, "DeleteRecord", id, NoData)

\* NewTable (lines 130-135) called by the caller, who hands the pointer to
\* every goroutine.
NewTableCall ==
    LET nt == NewTable(Len(cmaps) + 1)
        ts == Threads
    IN  /\ \A t \in ts : pc[t] = "idle"
        /\ Len(cmaps) < MaxMaps
        /\ heap' = Append(heap, nt.tbl)
        /\ tlog' = Append(tlog, NoLog)
        /\ cmaps' = Append(cmaps, nt.map)
        /\ h' = [t \in Threads |-> IF t \in ts THEN PtrHandle(Len(heap) + 1, "") ELSE h[t]]
        /\ last' = Call("NewTable", "", 0, NoData, "ok")
        /\ UNCHANGED <<tables, folder, lastSave, rlocked, disk, pc, call, wins, saved>>

(* -------------------------- Database calls ---------------------------- *)
\* A registry value: kind "Table" is a Table struct held by value in the
\* interface (line 126 stores *NewTable(), a copy: tbl), kind "*Table" a
\* pointer (line 178 stores the pointer NewTable returned: ref, in heap).
Entry(kind, ref, tbl) == [kind |-> kind, ref |-> ref, tbl |-> tbl]

\* A goroutine queued on the registry shard of this name behind a read lock
\* that is never released: RWMutex then makes later readers wait as well.
ShardWaiting(name) == \E u \in Threads : pc[u] = "hung" /\ call[u].name = name

\* NewTable calls still allowed, counting those of CreateTable calls under way.
FreeMaps == MaxMaps - Len(cmaps) - Cardinality({u \in Threads : pc[u] = "CreateTable"})

\* Mutant of CreateTableGet: the lookup of line 122 is not acted on.
CreateTableGet_NoCheck(t, name) ==
    /\ pc[t] = "idle"
    /\ FreeMaps > 0
    /\ pc' = [pc EXCEPT ![t] = "CreateTable"]
    /\ call' = [call EXCEPT ![t] = Call("CreateTable", name, 0, NoData, "run")]
    /\ UNCHANGED <<tables, folder, lastSave, rlocked, heap, cmaps, disk, h,
                   last, tlog, wins, saved>>

\* CreateTable, line 122: the lookup.
CreateTableGet(t, name) ==
    LET c == Call("CreateTable", name, 0, NoData, "run")
    IN  /\ pc[t] = "idle"
        /\ FreeMaps > 0
        /\ IF ShardWaiting(name) THEN Hang(t, c)
           ELSE IF CMapHas(tables, name) THEN Return(t, [c EXCEPT !.res = "exists"])
           ELSE /\ pc' = [pc EXCEPT ![t] = "CreateTable"]
                /\ call' = [call EXCEPT ![t] = c]
                /\ last' = last
        /\ UNCHANGED <<tables, folder, lastSave, rlocked, heap, cmaps, disk, h,
                       tlog, wins, saved>>

\* CreateTable, lines 126-127: the insertion of a copy of a new Table.
CreateTableSet(t) ==
    LET name == call[t].name
        nt == NewTable(Len(cmaps) + 1)
    IN  /\ pc[t] = "CreateTable"
        /\ IF name \in rlocked
           THEN /\ Hang(t, call[t])
                /\ UNCHANGED <<tables, cmaps, wins>>
           ELSE /\ cmaps' = Append(cmaps, nt.map)
                /\ tables' = CMapSet(tables, name, Entry("Table", 0, nt.tbl))
                /\ wins' = [wins EXCEPT ![name] = @ + 1]
                /\ Return(t, [call[t] EXCEPT !.res = "ok"])
        /\ UNCHANGED <<folder, lastSave, rlocked, heap, disk, h, tlog, saved>>

\* What the caller can do with GetTable's result (lines 137-144), a pointer to
\* an interface: from a "*Table" entry, reach the Table itself; from a "Table"
\* entry, which is held by value, only copy the struct to a variable of its own.
GetTableHandle(e, name) ==
    IF e.kind = "*Table" THEN PtrHandle(e.ref, name) ELSE CopyHandle(e.tbl, name)

GetTable(t, name) ==
    LET c == Call("GetTable", name, 0, NoData, "run")
    IN  /\ pc[t] = "idle"
        /\ IF ShardWaiting(name)
           THEN /\ Hang(t, c)
                /\ h' = h
           ELSE IF ~CMapHas(tables, name)
           THEN /\ Return(t, [c EXCEPT !.res = "notfound"])
                /\ h' = h
           ELSE /\ h' = [h EXCEPT ![t] = GetTableHandle(CMapGet(tables, name), name)]
                /\ Return(t, [c EXCEPT !.res = "ok"])
        /\ UNCHANGED <<tables, folder, lastSave, rlocked, heap, cmaps, disk,
                       tlog, wins, saved>>

\* NewDatabase (lines 115-119): a fresh Database; the one before it, its
\* Tables and the goroutines still inside it are dropped. The disk stays.
NewDatabaseCall ==
    /\ \A t \in Threads : pc[t] \in {"idle", "hung"}
    /\ tables' = NewDatabase.tables
    /\ folder' = NewDatabase.folder
    /\ lastSave' = NewDatabase.lastSave
    /\ rlocked' = {}
    /\ heap' = <<>>
    /\ tlog' = <<>>
    /\ cmaps' = <<>>
    /\ pc' = [t \in Threads |-> "idle"]
    /\ call' = [t \in Threads |-> NoCall]
    /\ h' = [t \in Threads |-> NoHandle]
    /\ last' = Call("NewDatabase", "", 0, NoData, "ok")
    /\ wins' = [n \in Names |-> 0]
    /\ UNCHANGED <<disk, saved>>

\* The orders in which a range / IterCb can visit the set S.
Orders(S) == {o \in [1..Cardinality(S) -> S] : \A i, j \in DOMAIN o : i # j => o[i] # o[j]}

\* Load, lines 171-176: the records are put in the map one by one.
\* nt = [tbl, map, log]
RECURSIVE LoadRecords(_, _, _)
LoadRecords(nt, recs, i) ==
    IF i > Len(recs) THEN nt
    ELSE LET r == recs[i]
         IN  LoadRecords(
               [tbl |-> IF r.ID >= nt.tbl.nextID
                        THEN [nt.tbl EXCEPT !.nextID = r.ID + 1] ELSE nt.tbl,
                map |-> CMapSet(nt.map, Itoa(r.ID), r),
                log |-> [nt.log EXCEPT !.issued = @ \cup {r.ID}]],
               recs, i + 1)

\* Load, line 169: the table whose file has just been opened is populated and
\* registered on this condition on the decode of its file.
LoadPopulates(file) == file.st = "bad"

\* Load, lines 159-181: the loop, at the i-th name of the visiting order.
\* st = [tables, heap, cmaps, tlog, res, name]. The Table of line 161 is kept
\* in heap and cmaps only when line 178 registers it: otherwise nothing
\* refers to it once the iteration ends.
RECURSIVE LoadLoop(_, _, _, _)
LoadLoop(st, dir, ord, i) ==
    IF i > Len(ord) THEN st
    ELSE LET name == ord[i]
             file == disk[dir].files[name]
             nt == NewTable(Len(st.cmaps) + 1)
             recs == [k \in DOMAIN file.recs |-> DecodeRecord(file.recs[k])]
         IN  IF file.st = "missing" THEN [st EXCEPT !.res = "error", !.name = name]
             ELSE IF ~LoadPopulates(file) THEN LoadLoop(st, dir, ord, i + 1)
             ELSE IF recs # <<>> /\ CMapPanics(nt.map)
                  THEN [st EXCEPT !.res = "panic", !.name = name]
             ELSE IF name \in rlocked THEN [st EXCEPT !.res = "hang", !.name = name]
             ELSE LET full == LoadRecords([tbl |-> nt.tbl, map |-> nt.map, log |-> NoLog],
                                          recs, 1)
                  IN  LoadLoop([st EXCEPT
                                  !.tables = CMapSet(st.tables, name,
                                                Entry("*Table", Len(st.heap) + 1, ZeroTable)),
                                  !.heap = Append(st.heap, full.tbl),
                                  !.tlog = Append(st.tlog, full.log),
                                  !.cmaps = Append(st.cmaps, full.map)],
                               dir, ord, i + 1)

\* Load (lines 146-183)
Load(t, dir) ==
    LET master == disk[dir].master
        c == Call("Load", dir, 0, NoData, "run")
    IN  /\ pc[t] = "idle"
        /\ FreeMaps >= Cardinality(master.keys)
        /\ folder' = IF master.st = "missing" THEN folder ELSE dir
        /\ IF master.st # "ok"
           THEN /\ Return(t, [c EXCEPT !.res = "error"])
                /\ UNCHANGED <<tables, heap, cmaps, tlog>>
           ELSE \E ord \in Orders(master.keys) :
                  LET st == LoadLoop([tables |-> tables, heap |-> heap, cmaps |-> cmaps,
                                      tlog |-> tlog, res |-> "ok", name |-> ""],
                                     dir, ord, 1)
                  IN  /\ tables' = st.tables
                      /\ heap' = st.heap
                      /\ cmaps' = st.cmaps
                      /\ tlog' = st.tlog
                      /\ IF st.res = "hang"
                         THEN Hang(t, [c EXCEPT !.name = st.name])
                         ELSE Return(t, [c EXCEPT !.res = st.res])
        /\ UNCHANGED <<lastSave, rlocked, disk, h, wins, saved>>

\* Save, line 189: the directory the file name falls in (folder, a separator,
\* the key): the root directory while folder is still empty.
SaveDir(f) == IF f = "" THEN "/" ELSE f

\* Save, lines 191-195: the arrays IterCb can collect from a record map.
SaveArrays(m) ==
    {[k \in DOMAIN o |-> MarshalRecord(CMapGet(m, o[k]))] : o \in Orders(CMapKeys(m))}

\* Save, lines 186-206: the callback, at the i-th registered name of the
\* visiting order. st = [disk, rlocked, res, name]. IterCb holds the read lock
\* of the shard while it calls the callback and releases it with no defer, so
\* the panic of the type assertion of line 187 leaves the shard read-locked.
RECURSIVE SaveLoop(_, _, _, _, _)
SaveLoop(st, ord, i, arr, wfail) ==
    IF i > Len(ord) THEN st
    ELSE LET name == ord[i]
             e == CMapGet(tables, name)
         IN  IF ShardWaiting(name) THEN [st EXCEPT !.res = "hang", !.name = name]
             ELSE IF e.kind # "*Table"
                  THEN [st EXCEPT !.res = "panic", !.name = name,
                                  !.rlocked = st.rlocked \cup {name}]
             ELSE IF name \in wfail THEN SaveLoop(st, ord, i + 1, arr, wfail)
             ELSE SaveLoop([st EXCEPT !.disk[SaveDir(folder)].files[name] =
                                         [st |-> "ok", recs |-> arr[name]]],
                           ord, i + 1, arr, wfail)

\* The records of a registered table, as JSON records.
EntryTable(e) == IF e.kind = "*Table" THEN heap[e.ref] ELSE e.tbl
EntryRecords(e) ==
    LET m == cmaps[EntryTable(e).records]
    IN  {MarshalRecord(CMapGet(m, k)) : k \in CMapKeys(m)}
\* The Database as a set of named record sets.
Snapshot == [n \in CMapKeys(tables) |-> EntryRecords(CMapGet(tables, n))]

\* Save (lines 185-209). wfail: the tables whose os.WriteFile fails.
Save(t, wfail) ==
    LET c == Call("Save", "", 0, NoData, "run")
        reg == CMapKeys(tables)
        arrs(n) == IF n \in reg /\ CMapGet(tables, n).kind = "*Table"
                   THEN SaveArrays(cmaps[heap[CMapGet(tables, n).ref].records])
                   ELSE {<<>>}
    IN  /\ pc[t] = "idle"
        /\ wfail \subseteq reg
        /\ \E ord \in Orders(reg) :
           \E arr \in {a \in [Names -> UNION {arrs(n) : n \in Names}] :
                          \A n \in Names : a[n] \in arrs(n)} :
             LET st == SaveLoop([disk |-> disk, rlocked |-> rlocked, res |-> "ok",
                                 name |-> ""], ord, 1, arr, wfail)
             IN  /\ disk' = st.disk
                 /\ rlocked' = st.rlocked
                 /\ lastSave' = IF st.res = "ok" THEN "now" ELSE lastSave
                 /\ saved' = IF st.res = "ok" /\ wfail = {}
                             THEN [st |-> "ok", dir |-> SaveDir(folder), tabs |-> Snapshot]
                             ELSE [st |-> "none", dir |-> "", tabs |-> <<>>]
                 /\ IF st.res = "hang"
                    THEN Hang(t, [c EXCEPT !.name = st.name])
                    ELSE Return(t, [c EXCEPT !.res = st.res])
        /\ UNCHANGED <<tables, folder, heap, cmaps, h, tlog, wins>>

(* ---------------------------- behaviours ------------------------------ *)
\* The whole program: every call, from every goroutine.
Next ==
    \/ NewDatabaseCall
    \/ NewTableCall
    \/ \E t \in Threads, n \in Names : CreateTableGet(t, n)
    \/ \E t \in Threads : CreateTableSet(t)
    \/ \E t \in Threads, n \in Names : GetTable(t, n)
    \/ \E t \in Threads, d \in Dirs : Load(t, d)
    \/ \E t \in Threads, w \in SUBSET Names : Save(t, w)
    \/ \E t \in Threads, d \in Payloads : CreateRecordLock(t, d)
    \/ \E t \in Threads : CreateRecordBody(t)
    \/ \E t \in Threads, id \in IDs : ReadRecord(t, id)
    \/ \E t \in Threads, id \in IDs, d \in Payloads : UpdateRecordLock(t, id, d)
    \/ \E t \in Threads : UpdateRecordBody(t)
    \/ \E t \in Threads, id \in IDs : DeleteRecordLock(t, id)
    \/ \E t \in Threads : DeleteRecordBody(t)

Spec == Init /\ [][Next]_vars

\* The state space of Spec is beyond what TLC explores in minutes, so the
\* properties are checked under these parts of it, each the program restricted
\* to the calls a group of properties is about.
NoDisk == InitWith(NoMaster, [n \in Names |-> NoFile])

\* SpecTable: the goroutines share one Table made by NewTable.
NextTable ==
    \/ NewTableCall
    \/ \E t \in Threads, d \in Payloads : CreateRecordLock(t, d)
    \/ \E t \in Threads : CreateRecordBody(t)
    \/ \E t \in Threads, id \in IDs : ReadRecord(t, id)
    \/ \E t \in Threads, id \in IDs, d \in Payloads : UpdateRecordLock(t, id, d)
    \/ \E t \in Threads : UpdateRecordBody(t)
    \/ \E t \in Threads, id \in IDs : DeleteRecordLock(t, id)
    \/ \E t \in Threads : DeleteRecordBody(t)

SpecTable == NoDisk /\ [][NextTable]_vars

\* SpecRegistry: the goroutines create tables in one Database, get them and
\* create and read records through what GetTable gave them.
NextRegistry ==
    \/ \E t \in Threads, n \in Names : CreateTableGet(t, n)
    \/ \E t \in Threads : CreateTableSet(t)
    \/ \E t \in Threads, n \in Names : GetTable(t, n)
    \/ \E t \in Threads, d \in Payloads : CreateRecordLock(t, d)
    \/ \E t \in Threads : CreateRecordBody(t)
    \/ \E t \in Threads, id \in IDs : ReadRecord(t, id)

SpecRegistry == NoDisk /\ [][NextRegistry]_vars

\* Load and Save are called from one goroutine (at startup, at a checkpoint).
Main == {1}

\* SpecLoad: one goroutine loads any directory into a Database, creates
\* tables, gets them and creates records.
NextLoad ==
    \/ \E t \in Main, n \in Names : CreateTableGet(t, n)
    \/ \E t \in Main : CreateTableSet(t)
    \/ \E t \in Main, n \in Names : GetTable(t, n)
    \/ \E t \in Main, d \in Dirs : Load(t, d)
    \/ \E t \in Main, d \in Payloads : CreateRecordLock(t, d)
    \/ \E t \in Main : CreateRecordBody(t)

SpecLoad == Init /\ [][NextLoad]_vars

\* SpecSave: one goroutine loads, creates tables, saves, and starts again
\* with a fresh Database on the same disk.
NextSave ==
    \/ NewDatabaseCall
    \/ \E t \in Main, n \in Names : CreateTableGet(t, n)
    \/ \E t \in Main : CreateTableSet(t)
    \/ \E t \in Main, d \in Dirs : Load(t, d)
    \/ \E t \in Main, w \in SUBSET Names : Save(t, w)

SpecSave == Init /\ [][NextSave]_vars

\* SpecTables: a Database with two tables on disk, each file failing to
\* decode at its first byte (the files Load registers a Table for). One
\* goroutine loads, creates tables and saves; both get tables, and create,
\* update and delete records in what they got, each in a table of its choice.
TwoTables ==
    InitWith([st |-> "ok", keys |-> Names], [n \in Names |-> [st |-> "bad", recs |-> <<>>]])

\* Goroutine t starts a call that takes the Table's lock (lines 47, 77, 97).
TableCall(t) ==
    \/ CreateRecordLock(t, NoData)
    \/ UpdateRecordLock(t, 1, NoData)
    \/ DeleteRecordLock(t, 1)

NextTables ==
    \/ \E t \in Main, n \in Names : CreateTableGet(t, n)
    \/ \E t \in Main : CreateTableSet(t)
    \/ \E t \in Threads, n \in Names : GetTable(t, n)
    \/ \E t \in Main, d \in Dirs : Load(t, d)
    \/ \E t \in Main : Save(t, {})
    \/ \E t \in Threads : TableCall(t)
    \/ \E t \in Threads : CreateRecordBody(t)
    \/ \E t \in Threads : UpdateRecordBody(t)
    \/ \E t \in Threads : DeleteRecordBody(t)

SpecTables == TwoTables /\ [][NextTables]_vars

\* SpecLive: the goroutines share one Table made by NewTable and call
\* CreateRecord, UpdateRecord and DeleteRecord on it again and again, each
\* call waiting at Lock() while the other goroutine holds the mutex.
NextLive ==
    \/ NewTableCall
    \/ \E t \in Threads : CreateRecordCall(t, NoData)
    \/ \E t \in Threads : UpdateRecordCall(t, 1, NoData)
    \/ \E t \in Threads : DeleteRecordCall(t, 1)
    \/ \E t \in Threads : LockAcquire(t)
    \/ \E t \in Threads : CreateRecordBody(t)
    \/ \E t \in Threads : UpdateRecordBody(t)
    \/ \E t \in Threads : DeleteRecordBody(t)

\* Scheduling: a goroutine that holds the mutex goes on running (weak
\* fairness of the bodies), and sync.Mutex, which RWMutex.Lock queues writers
\* on, hands the mutex to a goroutine that has waited (starvation mode), so a
\* waiting goroutine is not passed over for ever (strong fairness of acquiring).
FairTable ==
    \A t \in Threads :
        /\ SF_vars(LockAcquire(t))
        /\ WF_vars(CreateRecordBody(t))
        /\ WF_vars(UpdateRecordBody(t))
        /\ WF_vars(DeleteRecordBody(t))

SpecLive == NoDisk /\ [][NextLive]_vars /\ FairTable

(* ------------------------------ properties ---------------------------- *)
Range(q) == {q[i] : i \in DOMAIN q}
Max(S) == CHOOSE x \in S : \A y \in S : y <= x

\* The goroutines inside CreateRecord on the Table o of heap.
Creating(o) == {t \in Threads : pc[t] = "CreateRecord" /\ h[t].kind = "ptr" /\ h[t].ref = o}

\* C1: when the n CreateRecord calls made on one Table (from NewTable, nextID
\* 1, no records) have all ended, the ids they returned are exactly 1..n, each
\* returned once.
C1_CreatedIdsAreOneToN ==
    \A o \in DOMAIN heap :
        Creating(o) = {} =>
            /\ Range(tlog[o].ret) = 1..tlog[o].calls
            /\ Len(tlog[o].ret) = tlog[o].calls

\* C2: what a goroutine got from GetTable(name) is the Table registered under
\* name: its nextID counter is the registered Table's counter, and the counter
\* of whatever any other goroutine got for the same name.
C2_HandlesShareTheTable ==
    \A t \in Threads :
        (h[t].name # "" /\ CMapHas(tables, h[t].name)) =>
            /\ TableOf(t).nextID = EntryTable(CMapGet(tables, h[t].name)).nextID
            /\ \A u \in Threads :
                  h[u].name = h[t].name => TableOf(u).nextID = TableOf(t).nextID

\* C4: in every state, the nextID of every Table (behind a pointer, or held
\* by a goroutine in a variable) is greater than every id the Table has
\* issued (taken by CreateRecord, or put in by Load), deleted or not.
C4_NextIDAboveIssued ==
    /\ \A o \in DOMAIN heap : \A id \in tlog[o].issued : id < heap[o].nextID
    /\ \A t \in Threads : \A id \in h[t].log.issued : id < h[t].tbl.nextID

\* C4, its case: a Table that Load registered has issued an id to CreateRecord.
C4_Witness ==
    \E n \in CMapKeys(tables) :
        /\ CMapGet(tables, n).kind = "*Table"
        /\ tlog[CMapGet(tables, n).ref].issued # {}

\* C5: of the CreateTable calls made with one name, at most one returns nil.
C5_AtMostOneWins == \A n \in Names : wins[n] <= 1

\* C6: a CreateTable(name) call made while name is registered returns the
\* already-exists error and changes neither the registry nor any Table.
C6_ExistingTableKept ==
    [][\A t \in Threads, n \in Names :
          (CreateTableGet(t, n) /\ CMapHas(tables, n) /\ ~ShardWaiting(n)) =>
              /\ pc'[t] = "idle"
              /\ last'.op = "CreateTable" /\ last'.res = "exists"
              /\ tables' = tables /\ heap' = heap /\ cmaps' = cmaps]_vars

\* C6, its case: CreateTable has returned the error for a name under which a
\* Table with a record id already issued is registered.
C6_Witness ==
    /\ last.op = "CreateTable" /\ last.res = "exists"
    /\ \E n \in CMapKeys(tables) :
          CMapGet(tables, n).kind = "*Table" /\ heap[CMapGet(tables, n).ref].nextID > 1

\* The ids of a JSON array of records.
FileIDs(recs) == {recs[i].id : i \in DOMAIN recs}

\* C7: a Load that returns nil, into a Database with no table, of the
\* directory the last Save wrote (Save returned nil and every file was
\* written) registers the tables that were saved, each with the records saved,
\* and each with nextID above the ids it holds.
C7_RoundTrip ==
    [][\A t \in Threads, d \in Dirs :
          (/\ Load(t, d) /\ pc'[t] = "idle" /\ last'.res = "ok"
           /\ CMapKeys(tables) = {}
           /\ saved.st = "ok" /\ saved.dir = d) =>
              /\ Snapshot' = saved.tabs
              /\ \A n \in CMapKeys(tables') :
                    \A r \in EntryRecords(CMapGet(tables, n))' :
                        r.id < EntryTable(CMapGet(tables, n))'.nextID]_vars

\* C8: Load returns an error when a table file named in the catalog cannot be
\* opened or decoded, and when it returns nil every table of the catalog is
\* registered with the records of its file.
C8_LoadOnSuccessfulDecode ==
    [][\A t \in Threads, d \in Dirs :
          (Load(t, d) /\ pc'[t] = "idle" /\ disk[d].master.st = "ok") =>
              LET keys == disk[d].master.keys
                  file(n) == disk[d].files[n]
              IN  /\ (\E n \in keys : file(n).st # "ok") => last'.res = "error"
                  /\ last'.res = "ok" =>
                        \A n \in keys :
                            /\ n \in CMapKeys(tables')
                            /\ EntryRecords(CMapGet(tables, n))' = Range(file(n).recs)]_vars

\* C9: after a Load that returns nil every table of the catalog is registered
\* with nextID = 1 + the greatest id of its file (1 for a file of no records).
C9_NextIDAfterLoad ==
    [][\A t \in Threads, d \in Dirs :
          (Load(t, d) /\ pc'[t] = "idle" /\ last'.res = "ok") =>
              \A n \in disk[d].master.keys :
                  /\ n \in CMapKeys(tables')
                  /\ EntryTable(CMapGet(tables, n))'.nextID =
                        IF disk[d].files[n].recs = <<>> THEN 1
                        ELSE 1 + Max(FileIDs(disk[d].files[n].recs))]_vars

\* C10: after a Load that returns nil the registered names are exactly the
\* keys of the catalog.
C10_RegistryReplaced ==
    [][\A t \in Threads, d \in Dirs :
          (Load(t, d) /\ pc'[t] = "idle" /\ last'.res = "ok") =>
              CMapKeys(tables') = disk[d].master.keys]_vars

\* C11: Save returns nil only when the file of every registered table was
\* written: when the write of some table's file fails, Save returns an error,
\* and the files of the other tables are written all the same.
C11_SaveSurfacesFailure ==
    [][\A t \in Threads, w \in SUBSET Names :
          (Save(t, w) /\ pc'[t] = "idle" /\ last'.res # "panic") =>
              /\ last'.res = "ok" => w = {}
              /\ \A n \in CMapKeys(tables) \ w :
                    disk'[SaveDir(folder)].files[n].st = "ok"]_vars

\* C12: a Save call whose writes all succeed returns nil and leaves, for every
\* registered table (put there by CreateTable or by Load), a file holding
\* exactly the table's records: an empty array for a table of no records.
C12_SaveWritesEveryTable ==
    [][\A t \in Threads :
          (Save(t, {}) /\ ~(\E n \in Names : ShardWaiting(n))) =>
              /\ pc'[t] = "idle" /\ last'.res = "ok"
              /\ \A n \in CMapKeys(tables) :
                    LET f == disk'[SaveDir(folder)].files[n]
                    IN  /\ f.st = "ok"
                        /\ Range(f.recs) = EntryRecords(CMapGet(tables, n))
                        /\ Len(f.recs) = Cardinality(EntryRecords(CMapGet(tables, n)))]_vars

\* The record map of the Table goroutine t works on does not hold the id.
Absent(t, id) == ~CMapHas(cmaps[TableOf(t).records], Itoa(id))

\* C14: ReadRecord, UpdateRecord and DeleteRecord called with an id the Table
\* does not hold return the not-found error, and leave every record map and
\* the Table's nextID as they were.
C14_NotFoundLeavesTable ==
    [][\A t \in Threads :
          /\ \A id \in IDs :
                (ReadRecord(t, id) /\ Absent(t, id)) =>
                    /\ last'.op = "ReadRecord" /\ last'.res = "notfound"
                    /\ cmaps' = cmaps
                    /\ TableOf(t)'.nextID = TableOf(t).nextID
          /\ (UpdateRecordBody(t) /\ Absent(t, call[t].id)) =>
                /\ last'.op = "UpdateRecord" /\ last'.res = "notfound"
                /\ cmaps' = cmaps
                /\ TableOf(t)'.nextID = TableOf(t).nextID
          /\ (DeleteRecordBody(t) /\ Absent(t, call[t].id)) =>
                /\ last'.op = "DeleteRecord" /\ last'.res = "notfound"
                /\ cmaps' = cmaps
                /\ TableOf(t)'.nextID = TableOf(t).nextID]_vars

\* C18: a Load that returns an error leaves the Database as it was: the
\* registry, the Tables and their records, and the folder field.
C18_FailedLoadLeavesDatabase ==
    [][\A t \in Threads, d \in Dirs :
          (Load(t, d) /\ pc'[t] = "idle" /\ last'.res = "error") =>
              /\ tables' = tables
              /\ heap' = heap
              /\ cmaps' = cmaps
              /\ folder' = folder]_vars

\* Goroutines t and u work on the same Table struct (the same mutex).
SameTable(t, u) == h[t].kind = "ptr" /\ h[u].kind = "ptr" /\ h[t].ref = h[u].ref

\* Goroutine t is inside CreateRecord, UpdateRecord or DeleteRecord.
InTableCall(t) == pc[t] \in {"CreateRecord", "UpdateRecord", "DeleteRecord"}

\* A step of goroutine t inside a Table call leaves alone the registry, every
\* Table other than the one t works on, and every record map other than its.
OthersUnchanged(t) ==
    /\ tables' = tables
    /\ \A o \in DOMAIN heap : (h[t].kind = "ptr" /\ o = h[t].ref) \/ heap'[o] = heap[o]
    /\ \A u \in Threads \ {t} : h'[u] = h[u]
    /\ DOMAIN cmaps' = DOMAIN cmaps
    /\ \A i \in DOMAIN cmaps : i = TableOf(t).records \/ cmaps'[i] = cmaps[i]

\* A goroutine with a Table, no other goroutine being inside a call on that
\* Table: its Create / Update / Delete call gets the lock at once, whatever
\* calls are under way on other Tables or waiting on the registry.
NeverWaitsForOthers ==
    \A t \in Threads :
        (/\ pc[t] = "idle" /\ h[t].kind # "none"
         /\ \A u \in Threads \ {t} : SameTable(t, u) => ~InTableCall(u)) =>
            /\ ENABLED DeleteRecordLock(t, 1)
            /\ ENABLED UpdateRecordLock(t, 1, NoData)
            /\ TableOf(t).nextID < MaxID => ENABLED CreateRecordLock(t, NoData)

\* C16: a Create, Update or Delete on one table changes the records and nextID
\* of no other table, and never waits for a lock held by a call on another
\* table or on the registry.
C16_TablesIndependent ==
    /\ []NeverWaitsForOthers
    /\ [][\A t \in Threads :
             (TableCall(t) \/ CreateRecordBody(t) \/ UpdateRecordBody(t)
                \/ DeleteRecordBody(t)) => OthersUnchanged(t)]_vars

\* C16, its case: a goroutine has ended a CreateRecord call on one table of
\* the Database (its nextID has moved) while the other goroutine is inside a
\* call on another table.
C16_Witness ==
    \E t, u \in Threads :
        /\ t # u
        /\ pc[t] = "idle" /\ h[t].kind = "ptr" /\ heap[h[t].ref].nextID > 1
        /\ InTableCall(u) /\ h[u].kind = "ptr" /\ h[u].ref # h[t].ref
        /\ h[t].name # h[u].name

\* Goroutine t is in a call on the Table o of heap: waiting at Lock() or
\* inside the body.
CallingOn(t, o) ==
    h[t].kind = "ptr" /\ h[t].ref = o /\ (pc[t] = "Lock" \/ InTableCall(t))

\* The mutex of a Table is free when no call is in progress on the Table, and
\* is otherwise held by a goroutine that is inside a body.
LockFreeWhenQuiet ==
    \A o \in DOMAIN heap :
        /\ (\A t \in Threads : ~CallingOn(t, o)) => heap[o].lock = 0
        /\ heap[o].lock # 0 => InTableCall(heap[o].lock) /\ CallingOn(heap[o].lock, o)

====
